---- MODULE Spec2Model ----
(***************************************************************************)
(* Model of the stasis idle manager: the LegacyIdleTimer state machine     *)
(* (src/core/legacy/timer.rs, src/core/legacy/state.rs), the action        *)
(* dispatch (src/core/actions.rs), the brightness backup                   *)
(* (src/brightness.rs) and the signal sources that drive the timer (idle   *)
(* tick, input, compositor, media, power, suspend listener, control        *)
(* socket).  Time is a discrete clock in seconds.                          *)
(***************************************************************************)
EXTENDS Integers, Sequences, FiniteSets, TLC

\* ---------------------------------------------------------------- bounds
MaxTime == 3

\* ------------------------------------------------------------ option types
None == -1

\* Daemon processes that may be started.
NumInstances == 3

\* Seconds after which the clock of the ticker-only system stops advancing.
Horizon == 8

Instances == 1..NumInstances
NoCmd == "<none>"

\* ------------------------------------------------------------ config data
Act(t, c, k) == [timeout_seconds |-> t, command |-> c, kind |-> k]

Ent(p, n, a) == [key |-> <<p, n>>, action |-> a]

IdleConfig(acts, r, p, d) ==
    [actions |-> acts, resume_command |-> r, pre_suspend_command |-> p,
     respect_idle_inhibitors |-> TRUE, debounce_seconds |-> d]

\* Desktop configurations (keys desktop.*), in one HashMap iteration order.
DesktopA ==
    IdleConfig(<<Ent("desktop", "brightness", Act(1, "dim", "brightness")),
                 Ent("desktop", "suspend", Act(2, "susp", "suspend")),
                 Ent("desktop", "notify", Act(0, "note", "custom"))>>,
               "R", "P", 1)

DesktopB ==
    IdleConfig(<<Ent("desktop", "lock-screen", Act(1, "lock", "lock_screen")),
                 Ent("desktop", "warn", Act(1, "warn", "custom")),
                 Ent("desktop", "blank", Act(0, "", "custom"))>>,
               NoCmd, NoCmd, 2)

\* Laptop configuration (keys ac.* and battery.*).
LaptopA ==
    IdleConfig(<<Ent("ac", "brightness", Act(1, "dim", "brightness")),
                 Ent("battery", "brightness", Act(0, "dimlow", "brightness")),
                 Ent("battery", "suspend", Act(1, "susp", "suspend"))>>,
               "R", NoCmd, 1)

Configs(laptop) == IF laptop THEN {LaptopA} ELSE {DesktopA, DesktopB}

\* Desktop configuration with debounce_seconds = 0.
DesktopZ ==
    IdleConfig(<<Ent("desktop", "brightness", Act(1, "dim", "brightness")),
                 Ent("desktop", "suspend", Act(2, "susp", "suspend"))>>,
               "R", "P", 0)

\* ----------------------------------------------------------------- state
VARIABLES
    cfg, last_activity, debounce_until, idle_debounce_until, paused,
    manually_paused, resume_command, previous_brightness, suspend_occurred,
    is_idle_flags, active_kinds, on_ac, actions, ac_actions, battery_actions,
    pre_suspend_command, compositor_managed,
    now, backlight, is_laptop, pc, pm_started, last_on_ac, media_playing,
    active_apps,
    dispReset, dispExit, dispInstall, epSuspend,
    mutex, child, waiting,
    inst, path

timerVars ==
    <<cfg, last_activity, debounce_until, idle_debounce_until, paused,
      manually_paused, resume_command, previous_brightness, suspend_occurred,
      is_idle_flags, active_kinds, on_ac, actions, ac_actions, battery_actions,
      pre_suspend_command, compositor_managed>>

ghostVars == <<dispReset, dispExit, dispInstall, epSuspend>>

\* The timer mutex: its holder ("free" when unlocked), the external command
\* the holder waits for, and the tasks suspended in lock().await.
lockVars == <<mutex, child, waiting>>

\* Daemon processes at startup: where each instance stands in main(), and
\* which instance created the socket file at SOCKET_PATH (0: no file).
startVars == <<inst, path>>

vars ==
    <<timerVars, now, backlight, is_laptop, pc, pm_started, last_on_ac,
      media_playing, active_apps, ghostVars, lockVars, startVars>>

\* ------------------------------------------------------------- log events
Ev(e, i, c, v) == [e |-> e, i |-> i, cmd |-> c, v |-> v]

Log(w, ev) == [w EXCEPT !.log = Append(@, ev)]

Has(log, e) == \E k \in 1..Len(log) : log[k].e = e

AllFalse(n) == [i \in 1..n |-> FALSE]

\* ------------------------------------------------- ladder partitioning
starts_with(k, p) == k[1] = p

Values(entries) == [i \in 1..Len(entries) |-> entries[i].action]

DefaultPartition(c) ==
    Values(SelectSeq(c.actions,
        LAMBDA en : ~starts_with(en.key, "ac") /\ ~starts_with(en.key, "battery")))

AcPartition(c) ==
    Values(SelectSeq(c.actions, LAMBDA en : starts_with(en.key, "ac")))

BatteryPartition(c) ==
    Values(SelectSeq(c.actions, LAMBDA en : starts_with(en.key, "battery")))

SelectLadder(acs, bats, defs, onac) ==
    IF acs # <<>> \/ bats # <<>>
    THEN (IF onac THEN acs ELSE bats)
    ELSE defs

\* ------------------------------------------------------ brightness device
capture_brightness(w, capOk) == IF capOk THEN w.backlight ELSE None

restore_brightness(w, state) ==
    Log([w EXCEPT !.backlight = state], Ev("restore", 0, "", state))

\* --------------------------------------------------------- action dispatch
IsBlank(cmd) == cmd \in {"", " "}

is_process_running(cmd, lockRunning) ==
    IF IsBlank(cmd) THEN FALSE ELSE lockRunning

\* Mutant of prepare_action: a LockScreen action does not consult pgrep.
prepare_action_nopgrep(action, lockRunning) ==
    IF action.kind = "suspend"
    THEN <<"PreSuspend">> \o (IF ~IsBlank(action.command) THEN <<"RunCommand">> ELSE <<>>)
    ELSE IF action.kind = "lock_screen"
    THEN <<"RunCommand">>
    ELSE (IF IsBlank(action.command) THEN <<>> ELSE <<"RunCommand">>)

prepare_action(action, lockRunning) ==
    IF action.kind = "suspend"
    THEN <<"PreSuspend">> \o (IF ~IsBlank(action.command) THEN <<"RunCommand">> ELSE <<>>)
    ELSE IF action.kind = "lock_screen"
    THEN (IF is_process_running(action.command, lockRunning)
          THEN <<"Skip">> ELSE <<"RunCommand">>)
    ELSE (IF IsBlank(action.command) THEN <<>> ELSE <<"RunCommand">>)

\* run_pre_suspend_sync: Ok when the child exits with status 0 (w.pre_ok);
\* Err on a spawn error, a non-zero exit or the kill at the 5 s timeout.
run_pre_suspend_sync(w) == IF w.pre_ok THEN "Ok" ELSE "Err"

\* trigger_pre_suspend without the rewind branch (rewind_timers = false).
\* An Err of the command is logged ("pre_failed") and swallowed.
pre_suspend_no_rewind(w, manual) ==
    LET w1 == IF ~manual
              THEN Log([w EXCEPT !.suspend_occurred = TRUE], Ev("suspend_mark", 0, "", None))
              ELSE w
        w2 == Log(w1, Ev("pre", 0, w1.pre_suspend_command, None))
    IN IF w1.pre_suspend_command # NoCmd
       THEN (IF run_pre_suspend_sync(w1) = "Err"
             THEN Log(w2, Ev("pre_failed", 0, w1.pre_suspend_command, None))
             ELSE w2)
       ELSE w1

\* Mutant of run_requests: a failed pre-suspend command drops the requests
\* that follow it.
RECURSIVE run_requests_abort(_, _, _, _)
run_requests_abort(w, i, reqs, k) ==
    IF k > Len(reqs) THEN w
    ELSE IF reqs[k] = "PreSuspend"
    THEN (IF Has(pre_suspend_no_rewind(w, FALSE).log, "pre_failed")
          THEN pre_suspend_no_rewind(w, FALSE)
          ELSE run_requests_abort(pre_suspend_no_rewind(w, FALSE), i, reqs, k + 1))
    ELSE IF reqs[k] = "RunCommand"
    THEN run_requests_abort(Log(w, Ev("run", i, w.actions[i].command, None)), i, reqs, k + 1)
    ELSE run_requests_abort(Log(w, Ev("skip", i, w.actions[i].command, None)), i, reqs, k + 1)

RECURSIVE run_requests(_, _, _, _)
run_requests(w, i, reqs, k) ==
    IF k > Len(reqs) THEN w
    ELSE IF reqs[k] = "PreSuspend"
    THEN run_requests(pre_suspend_no_rewind(w, FALSE), i, reqs, k + 1)
    ELSE IF reqs[k] = "RunCommand"
    THEN run_requests(Log(w, Ev("run", i, w.actions[i].command, None)), i, reqs, k + 1)
    ELSE run_requests(Log(w, Ev("skip", i, w.actions[i].command, None)), i, reqs, k + 1)

dispatch(w, i, lockRunning) ==
    run_requests(w, i, prepare_action(w.actions[i], lockRunning), 1)

capture_if_brightness(w, i, capOk) ==
    IF w.actions[i].kind = "brightness" /\ w.previous_brightness = None
    THEN [w EXCEPT !.previous_brightness = capture_brightness(w, capOk)]
    ELSE w

\* ------------------------------------------------- trigger_instant_actions
InstantIdx(w) ==
    {i \in 1..Len(w.actions) :
        w.actions[i].timeout_seconds = 0 /\ ~w.is_idle_flags[i]}

RECURSIVE instant_loop(_, _, _, _, _)
instant_loop(w, todo, i, lockRunning, capOk) ==
    IF i > Len(w.actions) THEN w
    ELSE IF i \notin todo THEN instant_loop(w, todo, i + 1, lockRunning, capOk)
    ELSE LET w1 == [w EXCEPT !.is_idle_flags[i] = TRUE,
                             !.active_kinds = @ \cup {w.actions[i].kind}]
             w2 == capture_if_brightness(w1, i, capOk)
         IN instant_loop(dispatch(w2, i, lockRunning), todo, i + 1, lockRunning, capOk)

trigger_instant_actions(w, lockRunning, capOk) ==
    instant_loop(w, InstantIdx(w), 1, lockRunning, capOk)

\* ------------------------------------------------------ trigger_pre_suspend
\* Mutant of trigger_pre_suspend: the manual argument is not consulted.
trigger_pre_suspend_unmanual(w, rewind_timers, manual, t, lockRunning, capOk) ==
    pre_suspend_no_rewind(w, FALSE)

trigger_pre_suspend(w, rewind_timers, manual, t, lockRunning, capOk) ==
    LET w1 == pre_suspend_no_rewind(w, manual)
    IN IF w1.pre_suspend_command # NoCmd /\ rewind_timers
       THEN trigger_instant_actions(
                [w1 EXCEPT !.last_activity = t,
                           !.is_idle_flags = AllFalse(Len(w1.actions)),
                           !.active_kinds = {}],
                lockRunning, capOk)
       ELSE w1

\* listen_for_suspend_events: the handling of one PrepareForSleep signal
prepare_for_sleep(w, going_to_sleep, t) ==
    IF going_to_sleep
    THEN trigger_pre_suspend(w, FALSE, TRUE, t, FALSE, TRUE)
    ELSE IF w.resume_command # NoCmd
    THEN Log(w, Ev("resume", 0, w.resume_command, None))
    ELSE w

\* ------------------------------------------------------------- elapsed_idle
elapsed_idle(w, t) ==
    IF w.debounce_until # None /\ t < w.debounce_until
    THEN 0
    ELSE t - w.last_activity

\* --------------------------------------------------------------- check_idle
RECURSIVE check_loop(_, _, _, _, _, _)
check_loop(w, i, elapsed, t, lockRunning, capOk) ==
    IF i > Len(w.actions) THEN w
    ELSE LET action == w.actions[i]
             key == action.kind
         IN IF action.timeout_seconds = 0 \/ w.is_idle_flags[i] \/ key \in w.active_kinds
            THEN check_loop(w, i + 1, elapsed, t, lockRunning, capOk)
            ELSE IF elapsed >= action.timeout_seconds
            THEN (IF w.idle_debounce_until # None
                  THEN (IF t < w.idle_debounce_until
                        THEN w
                        ELSE LET w1 == [w EXCEPT !.idle_debounce_until = None,
                                                 !.is_idle_flags[i] = TRUE,
                                                 !.active_kinds = @ \cup {key}]
                                 w2 == capture_if_brightness(w1, i, capOk)
                             IN check_loop(dispatch(w2, i, lockRunning), i + 1,
                                           elapsed, t, lockRunning, capOk))
                  ELSE [w EXCEPT !.idle_debounce_until = t + w.cfg.debounce_seconds])
            ELSE check_loop(w, i + 1, elapsed, t, lockRunning, capOk)

\* check_idle with the `if self.paused { return; }` guard left out
check_idle_nopause(w, t, lockRunning, capOk) ==
    IF w.debounce_until # None /\ t < w.debounce_until THEN w
    ELSE LET w1 == [w EXCEPT !.debounce_until = None]
         IN check_loop(w1, 1, elapsed_idle(w1, t), t, lockRunning, capOk)

\* check_idle with the debounce handling left out: an action fires as soon
\* as now - last_activity reaches its timeout
RECURSIVE nodebounce_loop(_, _, _, _, _)
nodebounce_loop(w, i, t, lockRunning, capOk) ==
    IF i > Len(w.actions) THEN w
    ELSE LET action == w.actions[i]
         IN IF action.timeout_seconds = 0 \/ w.is_idle_flags[i]
               \/ action.kind \in w.active_kinds
               \/ t - w.last_activity < action.timeout_seconds
            THEN nodebounce_loop(w, i + 1, t, lockRunning, capOk)
            ELSE LET w1 == [w EXCEPT !.is_idle_flags[i] = TRUE,
                                     !.active_kinds = @ \cup {action.kind}]
                     w2 == capture_if_brightness(w1, i, capOk)
                 IN nodebounce_loop(dispatch(w2, i, lockRunning), i + 1, t,
                                    lockRunning, capOk)

check_idle_nodebounce(w, t, lockRunning, capOk) ==
    IF w.paused THEN w ELSE nodebounce_loop(w, 1, t, lockRunning, capOk)

check_idle(w, t, lockRunning, capOk) ==
    IF w.paused THEN w
    ELSE IF w.debounce_until # None /\ t < w.debounce_until THEN w
    ELSE LET w1 == [w EXCEPT !.debounce_until = None]
         IN check_loop(w1, 1, elapsed_idle(w1, t), t, lockRunning, capOk)

\* ------------------------------------------------------------- trigger_idle
RECURSIVE idle_loop(_, _, _)
idle_loop(w, i, lockRunning) ==
    IF i > Len(w.actions) THEN w
    ELSE IF ~w.is_idle_flags[i]
    THEN idle_loop(dispatch([w EXCEPT !.is_idle_flags[i] = TRUE], i, lockRunning),
                   i + 1, lockRunning)
    ELSE idle_loop(w, i + 1, lockRunning)

\* trigger_idle with the `if !self.is_idle_flags[i]` test left out
RECURSIVE refire_loop(_, _, _)
refire_loop(w, i, lockRunning) ==
    IF i > Len(w.actions) THEN w
    ELSE refire_loop(dispatch([w EXCEPT !.is_idle_flags[i] = TRUE], i, lockRunning),
                     i + 1, lockRunning)

trigger_idle_refire(w, lockRunning) == refire_loop(w, 1, lockRunning)

trigger_idle(w, lockRunning) == idle_loop(w, 1, lockRunning)

mark_all_idle(w) ==
    [w EXCEPT !.is_idle_flags = [i \in 1..Len(w.is_idle_flags) |-> TRUE]]

\* -------------------------------------------------------- reset and resume
was_idle(w) == \E i \in 1..Len(w.is_idle_flags) : w.is_idle_flags[i]

apply_reset(w, t) ==
    LET idle == was_idle(w)
        w1 == [w EXCEPT !.last_activity = t,
                        !.is_idle_flags = AllFalse(Len(w.is_idle_flags)),
                        !.idle_debounce_until = None]
        w2 == IF idle /\ w1.previous_brightness # None
              THEN restore_brightness(w1, w1.previous_brightness)
              ELSE w1
        w3 == IF idle /\ w2.suspend_occurred
              THEN [(IF w2.resume_command # NoCmd
                     THEN Log(w2, Ev("resume", 0, w2.resume_command, None))
                     ELSE w2) EXCEPT !.suspend_occurred = FALSE]
              ELSE w2
    IN [w3 EXCEPT !.active_kinds = {}, !.previous_brightness = None]

\* reset whose debounce deadline is pushed on from a deadline still armed
reset_extend(w, t) ==
    [apply_reset([w EXCEPT !.last_activity = t], t)
        EXCEPT !.debounce_until =
            (IF w.debounce_until # None THEN w.debounce_until ELSE t)
                + w.cfg.debounce_seconds]

\* reset that also ends a manual pause
reset_unpause(w, t) ==
    [apply_reset([w EXCEPT !.last_activity = t], t)
        EXCEPT !.debounce_until = t + w.cfg.debounce_seconds,
               !.manually_paused = FALSE]

reset(w, t) ==
    [apply_reset([w EXCEPT !.last_activity = t], t)
        EXCEPT !.debounce_until = t + w.cfg.debounce_seconds]

\* reset_state_after_resume with `self.is_idle_flags.fill(false)` left out
reset_state_after_resume_keepflags(w, t) ==
    LET idle == was_idle(w)
        w1 == [w EXCEPT !.last_activity = t]
        w2 == IF idle /\ w1.previous_brightness # None
              THEN restore_brightness(w1, w1.previous_brightness)
              ELSE w1
        w3 == IF idle /\ w2.resume_command # NoCmd
              THEN Log(w2, Ev("resume", 0, w2.resume_command, None))
              ELSE w2
    IN [w3 EXCEPT !.active_kinds = {}, !.previous_brightness = None]

reset_state_after_resume(w, t) ==
    LET idle == was_idle(w)
        w1 == [w EXCEPT !.last_activity = t,
                        !.is_idle_flags = AllFalse(Len(w.is_idle_flags))]
        w2 == IF idle /\ w1.previous_brightness # None
              THEN restore_brightness(w1, w1.previous_brightness)
              ELSE w1
        w3 == IF idle /\ w2.resume_command # NoCmd
              THEN Log(w2, Ev("resume", 0, w2.resume_command, None))
              ELSE w2
    IN [w3 EXCEPT !.active_kinds = {}, !.previous_brightness = None]

\* pause whose automatic branch does not test manually_paused
pause_nomanualcheck(w, manually) ==
    IF manually
    THEN [w EXCEPT !.manually_paused = TRUE, !.paused = FALSE]
    ELSE [w EXCEPT !.paused = TRUE]

\* pause whose manual branch leaves the automatic pause in place
pause_keepauto(w, manually) ==
    IF manually
    THEN [w EXCEPT !.manually_paused = TRUE]
    ELSE IF ~w.manually_paused
    THEN [w EXCEPT !.paused = TRUE]
    ELSE w

pause(w, manually) ==
    IF manually
    THEN [w EXCEPT !.manually_paused = TRUE, !.paused = FALSE]
    ELSE IF ~w.manually_paused
    THEN [w EXCEPT !.paused = TRUE]
    ELSE w

resume(w, manually, t) ==
    IF manually
    THEN (IF w.manually_paused
          THEN reset_state_after_resume(
                   [w EXCEPT !.manually_paused = FALSE, !.paused = FALSE], t)
          ELSE w)
    ELSE IF ~w.manually_paused /\ w.paused
    THEN reset_state_after_resume([w EXCEPT !.paused = FALSE], t)
    ELSE w

\* -------------------------------------------------- ladder (re)installation
\* update_power_source that sizes the fired flags by the battery ladder
update_power_source_batlen(w, onac, lockRunning, capOk) ==
    IF w.on_ac = onac THEN w
    ELSE LET w1 == [w EXCEPT !.on_ac = onac]
             w2 == IF w1.previous_brightness # None
                   THEN [restore_brightness(w1, w1.previous_brightness)
                            EXCEPT !.previous_brightness = None]
                   ELSE w1
             ladder == IF onac THEN w2.ac_actions ELSE w2.battery_actions
             w3 == [w2 EXCEPT !.actions = ladder,
                              !.is_idle_flags = AllFalse(Len(w2.battery_actions)),
                              !.active_kinds = {}]
         IN trigger_instant_actions(w3, lockRunning, capOk)

\* Mutant of update_power_source: the pending brightness backup is dropped
\* without being restored.
update_power_source_norestore(w, onac, lockRunning, capOk) ==
    IF w.on_ac = onac THEN w
    ELSE LET w1 == [w EXCEPT !.on_ac = onac, !.previous_brightness = None]
             ladder == IF onac THEN w1.ac_actions ELSE w1.battery_actions
             w3 == [w1 EXCEPT !.actions = ladder,
                              !.is_idle_flags = AllFalse(Len(ladder)),
                              !.active_kinds = {}]
         IN trigger_instant_actions(w3, lockRunning, capOk)

update_power_source(w, onac, lockRunning, capOk) ==
    IF w.on_ac = onac THEN w
    ELSE LET w1 == [w EXCEPT !.on_ac = onac]
             w2 == IF w1.previous_brightness # None
                   THEN [restore_brightness(w1, w1.previous_brightness)
                            EXCEPT !.previous_brightness = None]
                   ELSE w1
             ladder == IF onac THEN w2.ac_actions ELSE w2.battery_actions
             w3 == [w2 EXCEPT !.actions = ladder,
                              !.is_idle_flags = AllFalse(Len(ladder)),
                              !.active_kinds = {}]
         IN trigger_instant_actions(w3, lockRunning, capOk)

update_from_config(w, c, t, lockRunning, capOk) ==
    LET acs == AcPartition(c)
        bats == BatteryPartition(c)
        ladder == SelectLadder(acs, bats, DefaultPartition(c), w.on_ac)
        w1 == [w EXCEPT !.ac_actions = acs,
                        !.battery_actions = bats,
                        !.actions = ladder,
                        !.cfg = c,
                        !.is_idle_flags = AllFalse(Len(ladder)),
                        !.resume_command = c.resume_command,
                        !.pre_suspend_command = c.pre_suspend_command,
                        !.last_activity = t,
                        !.active_kinds = {},
                        !.previous_brightness = None]
    IN trigger_instant_actions(w1, lockRunning, capOk)

\* --------------------------------------------------------------- new timer
new(c, t, light) ==
    LET acs == AcPartition(c)
        bats == BatteryPartition(c)
        ladder == SelectLadder(acs, bats, DefaultPartition(c), TRUE)
    IN [cfg |-> c, last_activity |-> t, debounce_until |-> None,
        idle_debounce_until |-> None, paused |-> FALSE,
        manually_paused |-> FALSE, resume_command |-> c.resume_command,
        previous_brightness |-> None, suspend_occurred |-> FALSE,
        is_idle_flags |-> AllFalse(Len(ladder)), active_kinds |-> {},
        on_ac |-> TRUE, actions |-> ladder, ac_actions |-> acs,
        battery_actions |-> bats,
        pre_suspend_command |-> c.pre_suspend_command,
        compositor_managed |-> FALSE, backlight |-> light, log |-> <<>>,
        pre_ok |-> TRUE]

\* ------------------------------------------------------ state <-> record
Self ==
    [cfg |-> cfg, last_activity |-> last_activity,
     debounce_until |-> debounce_until,
     idle_debounce_until |-> idle_debounce_until, paused |-> paused,
     manually_paused |-> manually_paused, resume_command |-> resume_command,
     previous_brightness |-> previous_brightness,
     suspend_occurred |-> suspend_occurred, is_idle_flags |-> is_idle_flags,
     active_kinds |-> active_kinds, on_ac |-> on_ac, actions |-> actions,
     ac_actions |-> ac_actions, battery_actions |-> battery_actions,
     pre_suspend_command |-> pre_suspend_command,
     compositor_managed |-> compositor_managed, backlight |-> backlight,
     log |-> <<>>, pre_ok |-> TRUE]

Assign(w) ==
    /\ cfg' = w.cfg
    /\ last_activity' = w.last_activity
    /\ debounce_until' = w.debounce_until
    /\ idle_debounce_until' = w.idle_debounce_until
    /\ paused' = w.paused
    /\ manually_paused' = w.manually_paused
    /\ resume_command' = w.resume_command
    /\ previous_brightness' = w.previous_brightness
    /\ suspend_occurred' = w.suspend_occurred
    /\ is_idle_flags' = w.is_idle_flags
    /\ active_kinds' = w.active_kinds
    /\ on_ac' = w.on_ac
    /\ actions' = w.actions
    /\ ac_actions' = w.ac_actions
    /\ battery_actions' = w.battery_actions
    /\ pre_suspend_command' = w.pre_suspend_command
    /\ compositor_managed' = w.compositor_managed
    /\ backlight' = w.backlight

\* Indices whose command was handed to the executor in a log.
Dispatched(log) == {log[k].i : k \in {j \in 1..Len(log) : log[j].e = "run"}}

\* History of the dispatches: since the last reset(), since the last
\* episode exit, since the last ladder installation (instant actions only);
\* and whether suspend_occurred was set since the last episode exit.
Track(kind, w) ==
    LET n == Len(w.actions)
        D == Dispatched(w.log)
        mark == Has(w.log, "suspend_mark")
        fresh == [i \in 1..n |-> i \in D]
    IN /\ dispReset' = IF kind = "install" THEN fresh
                       ELSE IF kind = "reset" THEN AllFalse(n)
                       ELSE [i \in 1..n |-> dispReset[i] \/ i \in D]
       /\ dispExit' = IF kind = "install" THEN fresh
                      ELSE IF kind \in {"reset", "exit"} THEN AllFalse(n)
                      ELSE [i \in 1..n |-> dispExit[i] \/ i \in D]
       /\ dispInstall' = [i \in 1..n |->
                             /\ w.actions[i].timeout_seconds = 0
                             /\ IF kind = "install" THEN i \in D
                                ELSE (dispInstall[i] \/ i \in D)]
       /\ epSuspend' = IF kind \in {"reset", "exit"} THEN FALSE
                       ELSE (epSuspend \/ mark)

Commit(kind, w) ==
    /\ Assign(w)
    /\ Track(kind, w)

\* Outcomes of pgrep and of reading the backlight that a ladder can observe.
LockChoices(ladder) ==
    IF \E i \in 1..Len(ladder) : ladder[i].kind = "lock_screen"
    THEN BOOLEAN ELSE {FALSE}

CapChoices(ladder) ==
    IF \E i \in 1..Len(ladder) : ladder[i].kind = "brightness"
    THEN BOOLEAN ELSE {TRUE}

\* Exits of the pre-suspend command that a handler can observe: status 0
\* (TRUE) or a failure (FALSE), when a command is configured.
PreChoices == IF pre_suspend_command # NoCmd THEN BOOLEAN ELSE {TRUE}

envVars == <<is_laptop, pm_started, last_on_ac, media_playing, active_apps>>

\* ------------------------------------------- results of the operations
\* Each set holds the timer after the operation, with the log of its
\* effects, for every outcome of the external queries it makes.

\* init / trigger_instant_actions on the current ladder
InitOutcomes ==
    {trigger_instant_actions(Self, lockRunning, capOk) :
        lockRunning \in LockChoices(actions), capOk \in CapChoices(actions)}

\* The timer as a handler finds it, with the exit of the pre-suspend
\* command the handler will observe if it runs one.
Selves == {[Self EXCEPT !.pre_ok = preOk] : preOk \in PreChoices}

\* The timer as a handler leaves it: the exit status it observed is gone.
Returned(w) == [w EXCEPT !.pre_ok = TRUE]

\* spawn_idle_task: one iteration of the ticker loop
TickOutcomes ==
    {Returned(IF ~manually_paused
              THEN check_idle(s, now, lockRunning, capOk) ELSE s) :
        s \in Selves,
        lockRunning \in LockChoices(actions), capOk \in CapChoices(actions)}

\* control socket trigger_idle
TriggerIdleOutcomes ==
    {Returned(trigger_idle(s, lockRunning)) :
        s \in Selves, lockRunning \in LockChoices(actions)}

\* Mutant of is_inhibited: the inhibitor count is not consulted.
is_inhibited_never(active_inhibitors) == FALSE

\* WaylandIdleData::is_inhibited
is_inhibited(active_inhibitors) ==
    cfg.respect_idle_inhibitors /\ active_inhibitors > 0

\* Dispatch<ExtIdleNotificationV1>::event, the spawned handler
idle_event(w, event, active_inhibitors, t, lockRunning) ==
    IF is_inhibited(active_inhibitors) THEN w
    ELSE IF w.compositor_managed THEN w
    ELSE IF event = "Idled" THEN trigger_idle(mark_all_idle(w), lockRunning)
    ELSE reset(w, t)

\* Dispatch<ExtIdleNotificationV1>: Idled
IdledOutcomes ==
    {idle_event(Self, "Idled", inhibitors, now, lockRunning) :
        inhibitors \in 0..1, lockRunning \in LockChoices(actions)}

\* update_power_source(v) from the power monitor
PowerOutcomes(v) ==
    {update_power_source(Self, v, lockRunning, capOk) :
        lockRunning \in LockChoices(ac_actions \o battery_actions),
        capOk \in CapChoices(ac_actions \o battery_actions)}

\* Mutant of ctl_reload: a failed load falls back to the loaded value.
ctl_reload_fallback(w, loaded, c, t, lockRunning, capOk) ==
    update_from_config(w, c, t, lockRunning, capOk)

\* control socket "reload": load_config returns Ok(c) (loaded) or Err
ctl_reload(w, loaded, c, t, lockRunning, capOk) ==
    IF loaded THEN update_from_config(w, c, t, lockRunning, capOk) ELSE w

\* update_from_config(c) from the control socket
ReloadOutcomes(c) ==
    {update_from_config(Self, c, now, lockRunning, capOk) :
        lockRunning \in LockChoices(Values(c.actions)),
        capOk \in CapChoices(Values(c.actions))}

\* ------------------------------------------------------------------- Init
\* The state after LegacyIdleTimer::new(c), before init().
InitCfg(c) ==
    LET w == new(c, 0, 2)
    IN /\ cfg = w.cfg
       /\ last_activity = w.last_activity
       /\ debounce_until = w.debounce_until
       /\ idle_debounce_until = w.idle_debounce_until
       /\ paused = w.paused
       /\ manually_paused = w.manually_paused
       /\ resume_command = w.resume_command
       /\ previous_brightness = w.previous_brightness
       /\ suspend_occurred = w.suspend_occurred
       /\ is_idle_flags = w.is_idle_flags
       /\ active_kinds = w.active_kinds
       /\ on_ac = w.on_ac
       /\ actions = w.actions
       /\ ac_actions = w.ac_actions
       /\ battery_actions = w.battery_actions
       /\ pre_suspend_command = w.pre_suspend_command
       /\ compositor_managed = w.compositor_managed
       /\ backlight = w.backlight
       /\ dispReset = AllFalse(Len(w.actions))
       /\ dispExit = AllFalse(Len(w.actions))
       /\ dispInstall = AllFalse(Len(w.actions))
       /\ now = 0
       /\ pc = "new"
       /\ pm_started = FALSE
       /\ last_on_ac = TRUE
       /\ media_playing = FALSE
       /\ active_apps = {}
       /\ epSuspend = FALSE
       /\ mutex = "free"
       /\ child = "none"
       /\ waiting = {}
       /\ inst = [i \in Instances |-> "off"]
       /\ path = 0

Init ==
    /\ is_laptop \in BOOLEAN
    /\ \E c \in Configs(is_laptop) : InitCfg(c)

\* ---------------------------------------------------------------- actions
\* main: idle_timer.lock().await.init().await
InitTimer ==
    /\ pc = "new"
    /\ \E w \in InitOutcomes : Commit("install", w)
    /\ pc' = "running"
    /\ UNCHANGED <<now, envVars, lockVars, startVars>>

\* one second passes
ClockTick ==
    /\ pc = "running"
    /\ now < MaxTime
    /\ now' = now + 1
    /\ UNCHANGED <<timerVars, backlight, pc, envVars, ghostVars, lockVars, startVars>>

IdleTick ==
    /\ pc = "running"
    /\ \E w \in TickOutcomes : Commit("normal", w)
    /\ UNCHANGED <<now, pc, envVars, lockVars, startVars>>

\* spawn_input_task: a batch with a keyboard or pointer event
InputActivity ==
    /\ pc = "running"
    /\ Commit("reset", reset(Self, now))
    /\ UNCHANGED <<now, pc, envVars, lockVars, startVars>>

\* wayland setup: notifier and seat bound, notification registered
WaylandSetup ==
    /\ pc = "running"
    /\ ~compositor_managed
    /\ Commit("normal", [Self EXCEPT !.compositor_managed = TRUE])
    /\ UNCHANGED <<now, pc, envVars, lockVars, startVars>>

CompositorIdled ==
    /\ pc = "running"
    /\ compositor_managed
    /\ \E w \in IdledOutcomes : Commit("normal", w)
    /\ UNCHANGED <<now, pc, envVars, lockVars, startVars>>

\* Dispatch<ExtIdleNotificationV1>: Resumed
CompositorResumed ==
    /\ pc = "running"
    /\ compositor_managed
    /\ \E w \in {idle_event(Self, "Resumed", inhibitors, now, FALSE) :
                    inhibitors \in 0..1} :
          Commit(IF compositor_managed THEN "normal" ELSE "reset", w)
    /\ UNCHANGED <<now, pc, envVars, lockVars, startVars>>

\* spawn_media_monitor: one poll that sees an edge
MediaPoll ==
    /\ pc = "running"
    /\ \E any_playing \in BOOLEAN :
          /\ any_playing # media_playing
          /\ media_playing' = any_playing
          /\ IF any_playing
             THEN Commit("normal", pause(Self, FALSE))
             ELSE Commit(IF ~manually_paused /\ paused THEN "exit" ELSE "normal",
                         resume(Self, FALSE, now))
    /\ UNCHANGED <<now, pc, is_laptop, pm_started, last_on_ac, active_apps, lockVars, startVars>>

\* The sets of matching inhibiting apps a scan can find.
AppSets == {{}, {"mpv"}}

\* AppInhibitor::is_any_app_running: the scan replaces active_apps
is_any_app_running(new_active_apps) ==
    [active_apps |-> new_active_apps, running |-> new_active_apps # {}]

\* spawn_app_inhibit_task: one iteration of the poll loop
AppInhibitPoll ==
    /\ pc = "running"
    /\ \E found \in AppSets :
          LET was_running == active_apps # {}
              scan == is_any_app_running(found)
          IN /\ active_apps' = scan.active_apps
             /\ IF scan.running /\ ~was_running
                THEN Commit("normal", pause(Self, FALSE))
                ELSE IF ~scan.running /\ was_running
                THEN Commit(IF ~manually_paused /\ paused THEN "exit" ELSE "normal",
                            resume(Self, FALSE, now))
                ELSE Commit("normal", Self)
    /\ UNCHANGED <<now, pc, is_laptop, pm_started, last_on_ac, media_playing, lockVars, startVars>>

\* control socket: info (scans the apps, changes no timer field)
CtlInfo ==
    /\ pc = "running"
    /\ \E found \in AppSets :
          active_apps' = is_any_app_running(found).active_apps
    /\ Commit("normal", Self)
    /\ UNCHANGED <<now, pc, is_laptop, pm_started, last_on_ac, media_playing, lockVars, startVars>>

\* spawn_power_monitor: initial detection, written straight into on_ac
PowerMonitorStart ==
    /\ pc = "running"
    /\ ~pm_started
    /\ \E v \in (IF is_laptop THEN BOOLEAN ELSE {TRUE}) :
          /\ Commit("normal", [Self EXCEPT !.on_ac = v])
          /\ last_on_ac' = v
    /\ pm_started' = TRUE
    /\ UNCHANGED <<now, pc, is_laptop, media_playing, active_apps, lockVars, startVars>>

\* spawn_power_monitor: a poll that sees a change
PowerPoll ==
    /\ pc = "running"
    /\ pm_started
    /\ is_laptop
    /\ \E w \in PowerOutcomes(~last_on_ac) :
          Commit(IF on_ac # ~last_on_ac THEN "install" ELSE "normal", w)
    /\ last_on_ac' = ~last_on_ac
    /\ UNCHANGED <<now, pc, is_laptop, pm_started, media_playing, active_apps, lockVars, startVars>>

\* listen_for_suspend_events: PrepareForSleep(true) and PrepareForSleep(false)
SleepOutcomes ==
    {Returned(prepare_for_sleep(s, going_to_sleep, now)) :
        going_to_sleep \in BOOLEAN, s \in Selves}

PrepareForSleep ==
    /\ pc = "running"
    /\ \E w \in SleepOutcomes : Commit("normal", w)
    /\ UNCHANGED <<now, pc, envVars, lockVars, startVars>>

\* control socket: reload; the configuration file loads or fails to load
CtlReload ==
    /\ pc = "running"
    /\ \/ \E c \in Configs(is_laptop) :
             \E w \in {ctl_reload(Self, TRUE, c, now, lockRunning, capOk) :
                           lockRunning \in LockChoices(Values(c.actions)),
                           capOk \in CapChoices(Values(c.actions))} :
                 Commit("install", w)
       \/ Commit("normal", ctl_reload(Self, FALSE, cfg, now, FALSE, TRUE))
    /\ UNCHANGED <<now, pc, envVars, lockVars, startVars>>

\* control socket: pause
CtlPause ==
    /\ pc = "running"
    /\ Commit("normal", pause(Self, TRUE))
    /\ UNCHANGED <<now, pc, envVars, lockVars, startVars>>

\* control socket: resume
CtlResume ==
    /\ pc = "running"
    /\ Commit(IF manually_paused THEN "exit" ELSE "normal", resume(Self, TRUE, now))
    /\ UNCHANGED <<now, pc, envVars, lockVars, startVars>>

CtlTriggerIdle ==
    /\ pc = "running"
    /\ \E w \in TriggerIdleOutcomes : Commit("normal", w)
    /\ UNCHANGED <<now, pc, envVars, lockVars, startVars>>

\* control socket: toggle_inhibit (set_manual_inhibit)
CtlToggleInhibit ==
    /\ pc = "running"
    /\ IF manually_paused
       THEN Commit("exit", resume(Self, TRUE, now))
       ELSE Commit("normal", pause(Self, TRUE))
    /\ UNCHANGED <<now, pc, envVars, lockVars, startVars>>

\* a dispatched Brightness command takes effect on the backlight device
DimCommandRuns ==
    /\ pc = "running"
    /\ \E i \in 1..Len(actions) :
          actions[i].kind = "brightness" /\ dispExit[i]
    /\ backlight = 2
    /\ backlight' = 1
    /\ UNCHANGED <<timerVars, now, pc, envVars, ghostVars, lockVars, startVars>>

Next ==
    \/ InitTimer
    \/ ClockTick
    \/ IdleTick
    \/ InputActivity
    \/ WaylandSetup
    \/ CompositorIdled
    \/ CompositorResumed
    \/ MediaPoll
    \/ PowerMonitorStart
    \/ PowerPoll
    \/ PrepareForSleep
    \/ CtlReload
    \/ CtlPause
    \/ CtlResume
    \/ CtlTriggerIdle
    \/ CtlToggleInhibit
    \/ DimCommandRuns

Spec == Init /\ [][Next]_vars

\* The system with the app inhibitor scanning (the poll task and the `info`
\* control command) and without the compositor source.  The scans reach
\* the timer only through pause(false) and resume(false), which the media
\* monitor also calls.
NextApps ==
    \/ InitTimer
    \/ ClockTick
    \/ IdleTick
    \/ InputActivity
    \/ MediaPoll
    \/ PowerMonitorStart
    \/ PowerPoll
    \/ PrepareForSleep
    \/ CtlReload
    \/ CtlPause
    \/ CtlResume
    \/ CtlTriggerIdle
    \/ CtlToggleInhibit
    \/ DimCommandRuns
    \/ AppInhibitPoll
    \/ CtlInfo

SpecApps == Init /\ [][NextApps]_vars

\* ------------------------------------------------------- the timer mutex
\* Tasks that lock the timer: spawn_idle_task, spawn_input_task and the
\* suspend listener.
Tasks == {"idle_task", "input_task", "suspend_listener"}

\* The external command a handler waits for before it returns:
\* run_pre_suspend_sync polls its child for up to 5 s, and is_process_running
\* awaits the output of pgrep for a lock_screen action with a command.
ExternalWait(w) ==
    IF Has(w.log, "pre") THEN "pre_suspend"
    ELSE IF \E k \in 1..Len(w.log) :
               /\ w.log[k].e \in {"run", "skip"}
               /\ w.actions[w.log[k].i].kind = "lock_screen"
               /\ ~IsBlank(w.actions[w.log[k].i].command)
    THEN "pgrep"
    ELSE "none"

\* A task takes the free mutex and runs its handler with the guard alive;
\* the guard is dropped when the handler returns, which is after the wait
\* for the external command when the handler has one.
Locked(task, kind, w) ==
    /\ mutex = "free"
    /\ Commit(kind, w)
    /\ child' = ExternalWait(w)
    /\ mutex' = IF ExternalWait(w) = "none" THEN "free" ELSE task
    /\ waiting' = waiting \ {task}

\* spawn_idle_task: lock, then check_idle unless manually paused
IdleTaskLocked ==
    /\ pc = "running"
    /\ \E w \in TickOutcomes : Locked("idle_task", "normal", w)
    /\ UNCHANGED <<now, pc, envVars, startVars>>

\* spawn_input_task: lock, then reset()
InputTaskLocked ==
    /\ pc = "running"
    /\ Locked("input_task", "reset", reset(Self, now))
    /\ UNCHANGED <<now, pc, envVars, startVars>>

\* listen_for_suspend_events: lock, then handle the signal
SuspendListenerLocked ==
    /\ pc = "running"
    /\ \E w \in SleepOutcomes : Locked("suspend_listener", "normal", w)
    /\ UNCHANGED <<now, pc, envVars, startVars>>

\* a task reaches lock().await while another task holds the mutex
LockAwait ==
    /\ pc = "running"
    /\ mutex # "free"
    /\ \E task \in Tasks \ ({mutex} \cup waiting) :
          waiting' = waiting \cup {task}
    /\ UNCHANGED <<timerVars, now, backlight, pc, envVars, ghostVars,
                   mutex, child, startVars>>

\* the external command exits (or is killed at its timeout): the handler
\* returns and the guard is dropped
ChildExit ==
    /\ pc = "running"
    /\ child # "none"
    /\ child' = "none"
    /\ mutex' = "free"
    /\ UNCHANGED <<timerVars, now, backlight, pc, envVars, ghostVars,
                   waiting, startVars>>

NextLock ==
    \/ InitTimer
    \/ ClockTick
    \/ IdleTaskLocked
    \/ InputTaskLocked
    \/ SuspendListenerLocked
    \/ LockAwait
    \/ ChildExit

SpecLock == Init /\ [][NextLock]_vars

\* ------------------------------------------- single-instance enforcement
nonStartVars ==
    <<timerVars, now, backlight, pc, envVars, ghostVars, lockVars>>

\* a daemon process is started
Start ==
    /\ \E i \in Instances :
          /\ inst[i] = "off"
          /\ inst' = [inst EXCEPT ![i] = "connect"]
    /\ UNCHANGED <<path, nonStartVars>>

\* UnixStream::connect(SOCKET_PATH): succeeds when the file at the path is
\* the socket of a listening instance; then the process returns
Connect ==
    /\ \E i \in Instances :
          /\ inst[i] = "connect"
          /\ inst' = [inst EXCEPT ![i] =
                         IF path # 0 /\ inst[path] = "serving"
                         THEN "off" ELSE "remove_file"]
    /\ UNCHANGED <<path, nonStartVars>>

\* fs::remove_file(SOCKET_PATH), its result ignored
RemoveFile ==
    /\ \E i \in Instances :
          /\ inst[i] = "remove_file"
          /\ inst' = [inst EXCEPT ![i] = "bind"]
    /\ path' = 0
    /\ UNCHANGED nonStartVars

\* UnixListener::bind(SOCKET_PATH): fails when a file exists at the path
Bind ==
    /\ \E i \in Instances :
          /\ inst[i] = "bind"
          /\ IF path = 0
             THEN inst' = [inst EXCEPT ![i] = "serving"] /\ path' = i
             ELSE inst' = [inst EXCEPT ![i] = "off"] /\ path' = path
    /\ UNCHANGED nonStartVars

\* setup_cleanup_handler: on SIGINT remove the file at the path and exit
CtrlC ==
    /\ \E i \in Instances :
          /\ inst[i] = "serving"
          /\ inst' = [inst EXCEPT ![i] = "off"]
    /\ path' = 0
    /\ UNCHANGED nonStartVars

\* the process is killed: no handler runs, the socket file stays
Killed ==
    /\ \E i \in Instances :
          /\ inst[i] = "serving"
          /\ inst' = [inst EXCEPT ![i] = "off"]
    /\ UNCHANGED <<path, nonStartVars>>

NextStartup ==
    \/ Start
    \/ Connect
    \/ RemoveFile
    \/ Bind
    \/ CtrlC
    \/ Killed

SpecStartup == Init /\ [][NextStartup]_vars

\* ------------------------------------------------ debounce_seconds = 0
InitZero ==
    /\ is_laptop = FALSE
    /\ InitCfg(DesktopZ)

NextZero ==
    \/ InitTimer
    \/ ClockTick
    \/ IdleTick
    \/ InputActivity
    \/ CtlPause
    \/ CtlResume
    \/ CtlTriggerIdle
    \/ DimCommandRuns

SpecZero == InitZero /\ [][NextZero]_vars

\* ============================================================== properties
Running == pc = "running"

NoDispatch(W) == \A w \in W : Dispatched(w.log) = {}

\* Operations that dispatch action commands without replacing the ladder.
LadderKeepingOutcomes ==
    TickOutcomes \cup TriggerIdleOutcomes
        \cup (IF compositor_managed THEN IdledOutcomes ELSE {})
        \cup {trigger_pre_suspend(Self, FALSE, TRUE, now, FALSE, TRUE)}

\* Operations that install a ladder and fire its instant actions.
InstallOutcomes ==
    UNION {ReloadOutcomes(c) : c \in Configs(is_laptop)}
        \cup (IF pm_started /\ is_laptop THEN PowerOutcomes(~last_on_ac) ELSE {})

\* Episode exits: reset(), and a resume() that takes effect.
ExitOutcomes ==
    {reset(Self, now)}
        \cup (IF manually_paused THEN {resume(Self, TRUE, now)} ELSE {})
        \cup (IF ~manually_paused /\ paused THEN {resume(Self, FALSE, now)} ELSE {})

\* An unfired timed action whose timeout has elapsed since last_activity.
Due(i) ==
    /\ actions[i].timeout_seconds > 0
    /\ ~is_idle_flags[i]
    /\ now - last_activity >= actions[i].timeout_seconds

\* The activity debounce armed by the most recent reset() is still open.
\* debounce_until is set only by reset(), to the reset time plus
\* debounce_seconds, and is cleared only by a check_idle at or after it.
WithinDebounce == debounce_until # None /\ now < debounce_until

\* ---- C1
\* C1 (as stated): without a ladder replacement, the command of action i is
\* dispatched at most once between two consecutive reset() calls: no
\* operation dispatches an action already dispatched since the last reset().
C1_OncePerReset ==
    Running => \A w \in LadderKeepingOutcomes :
                  \A i \in Dispatched(w.log) : ~dispReset[i]

\* C1 (amended): the command of action i is dispatched at most once between
\* two consecutive episode exits (a reset() or a resume() that takes effect).
C1_OncePerEpisode ==
    Running => \A w \in LadderKeepingOutcomes :
                  \A i \in Dispatched(w.log) : ~dispExit[i]

\* An action was dispatched in this episode and trigger_idle now dispatches
\* the remaining ones.
C1_Witness ==
    /\ Running
    /\ \E i \in 1..Len(actions) : dispExit[i]
    /\ \E w \in TriggerIdleOutcomes : Dispatched(w.log) # {}

\* ---- C2
\* C2: at every episode exit (with a resume_command configured) the
\* resume_command is scheduled iff suspend_occurred was set during the
\* episode that is ending.
C2_ResumePairing ==
    (Running /\ resume_command # NoCmd) =>
        \A w \in ExitOutcomes : Has(w.log, "resume") <=> epSuspend

\* ---- C3
\* C3: a captured brightness backup of a fired Brightness action is written
\* back to the device by whichever operation ends the episode (reset,
\* effective resume, update_power_source, update_from_config).
C3_BrightnessRoundTrip ==
    (/\ Running
     /\ previous_brightness # None
     /\ \E i \in 1..Len(actions) :
           actions[i].kind = "brightness" /\ is_idle_flags[i])
    => \A w \in ExitOutcomes \cup InstallOutcomes :
          \E k \in 1..Len(w.log) :
              w.log[k] = Ev("restore", 0, "", previous_brightness)

\* ---- C4
\* C4: while manually_paused or paused, no operation dispatches an action
\* command: not the tick, not trigger_idle, not the instant actions of
\* update_power_source or update_from_config.
C4_PauseSuppressionAnyPath ==
    (Running /\ (paused \/ manually_paused)) =>
        NoDispatch(LadderKeepingOutcomes \cup InstallOutcomes)

\* ---- C5
\* C5: while paused or manually_paused, a periodic idle tick dispatches no
\* action (it has no effect at all) and sets no fired flag.
C5_TickSuppressedWhilePaused ==
    (Running /\ (paused \/ manually_paused)) =>
        \A w \in TickOutcomes :
            w.log = <<>> /\ w.is_idle_flags = is_idle_flags

\* A paused timer with an action due whose idle debounce has expired: the
\* tick would fire it were the timer not paused.
C5_Witness ==
    /\ Running
    /\ paused \/ manually_paused
    /\ \E i \in 1..Len(actions) : Due(i) /\ actions[i].kind \notin active_kinds
    /\ idle_debounce_until # None /\ now >= idle_debounce_until
    /\ ~WithinDebounce

\* ---- C6
\* C6: each instant action with a command is dispatched exactly once per
\* ladder installation: it has been dispatched since the installation, and
\* no later operation on the same ladder dispatches it again.
C6_InstantOncePerLadder ==
    Running =>
        /\ \A i \in 1..Len(actions) :
              (actions[i].timeout_seconds = 0 /\ ~IsBlank(actions[i].command)
               /\ actions[i].kind # "lock_screen") => dispInstall[i]
        /\ \A w \in LadderKeepingOutcomes :
              \A i \in Dispatched(w.log) :
                  actions[i].timeout_seconds = 0 => ~dispInstall[i]

\* ---- C7
\* C7: once compositor_managed is true the periodic check_idle dispatches
\* no action (every action it dispatches is one mark_all_idle has not
\* marked).
C7_CompositorPrecedence ==
    (Running /\ compositor_managed) => NoDispatch(TickOutcomes)

\* ---- C8
\* C8 (as stated): no operation (check_idle, trigger_idle,
\* trigger_instant_actions) dispatches an action command less than
\* debounce_seconds after the most recent reset().
C8_DebounceAnyPath ==
    (Running /\ WithinDebounce) =>
        NoDispatch(LadderKeepingOutcomes \cup InstallOutcomes)

\* C8 (amended): check_idle dispatches no action command before the
\* activity-debounce deadline armed by the most recent reset().
C8_DebounceTick ==
    (Running /\ WithinDebounce) =>
        \A w \in TickOutcomes : w.log = <<>> /\ w.is_idle_flags = is_idle_flags

\* Inside the debounce window of a reset, unpaused, with an action whose
\* timeout has already elapsed.
C8_Witness ==
    /\ Running
    /\ WithinDebounce
    /\ ~paused /\ ~manually_paused
    /\ \E i \in 1..Len(actions) : Due(i) /\ actions[i].kind \notin active_kinds

\* ---- C9
\* C9: for every ActionKind at most one index of the active ladder has its
\* fired flag set.
C9_KindUniqueness ==
    \A i, j \in 1..Len(actions) :
        (i # j /\ is_idle_flags[i] /\ is_idle_flags[j])
            => actions[i].kind # actions[j].kind

\* ---- C10
\* C10: if the fired flag of a Brightness action is set then the brightness
\* backup is present.
C10_BrightnessBackupPresent ==
    \A i \in 1..Len(actions) :
        (is_idle_flags[i] /\ actions[i].kind = "brightness")
            => previous_brightness # None

\* Number of effects of one sort in a log.
Count(log, e) == Cardinality({k \in 1..Len(log) : log[k].e = e})

\* The timer as the next operation finds it: the effects already recorded.
Settled(w) == [w EXCEPT !.log = <<>>]

\* ---- C11
\* C11: in every reachable state the fired-flag vector has exactly one
\* entry per action of the active ladder.
C11_FlagsMatchLadder ==
    DOMAIN is_idle_flags = 1..Len(actions)

\* The battery ladder, of another length than the AC ladder, is active.
C11_Witness ==
    /\ Running
    /\ ~on_ac
    /\ actions = battery_actions
    /\ Len(battery_actions) # Len(ac_actions)

\* ---- C12
\* C12: whenever the configuration has ac.* or battery.* actions, the
\* active ladder is the ac.* partition if on_ac and the battery.*
\* partition otherwise.
C12_LadderMatchesPower ==
    (AcPartition(cfg) # <<>> \/ BatteryPartition(cfg) # <<>>) =>
        actions = (IF on_ac THEN AcPartition(cfg) ELSE BatteryPartition(cfg))

\* ---- C15
\* C15: while manually_paused, pause(false) and resume(false) change no
\* timer field and have no effect (no brightness restore, no
\* resume_command).
C15_ManualOverridesAuto ==
    manually_paused =>
        /\ pause(Self, FALSE) = Self
        /\ resume(Self, FALSE, now) = Self

\* Manually paused in an episode with fired actions, a brightness backup
\* and a resume_command: a resume that took effect would act on all three.
C15_Witness ==
    /\ Running
    /\ manually_paused
    /\ was_idle(Self)
    /\ previous_brightness # None
    /\ resume_command # NoCmd

\* ---- C16
\* C16: a second reset() at the same instant as a reset() leaves every
\* timer field unchanged, restores no brightness and schedules no
\* resume_command.
C16_ResetIdempotent ==
    Running =>
        LET w1 == Settled(reset(Self, now))
        IN reset(w1, now) = w1

\* A state whose reset() restores the brightness and runs resume_command,
\* with the debounce of an earlier reset() still armed.
C16_Witness ==
    /\ Running
    /\ Has(reset(Self, now).log, "restore")
    /\ Has(reset(Self, now).log, "resume")
    /\ debounce_until # None

\* ---- C18
\* C18: from any reachable state pause(true); resume(true) leaves the
\* timer unpaused with no fired flag, no active kind, no brightness backup
\* and suspend_occurred false.
C18_PauseResumeClean ==
    Running =>
        LET w == resume(pause(Self, TRUE), TRUE, now)
        IN /\ ~w.manually_paused
           /\ ~w.paused
           /\ ~was_idle(w)
           /\ w.active_kinds = {}
           /\ w.previous_brightness = None
           /\ ~w.suspend_occurred

\* ---- C19
\* C19: manual pause then manual resume after an episode in which actions
\* fired: the resume restores the brightness backup (if one is held) once
\* and runs resume_command (if configured) once; a following reset()
\* repeats neither.
C19_ManualResumeOnce ==
    (Running /\ was_idle(Self)) =>
        LET w1 == resume(pause(Self, TRUE), TRUE, now)
            w2 == reset(Settled(w1), now)
        IN /\ Count(w1.log, "restore") = (IF previous_brightness # None THEN 1 ELSE 0)
           /\ Count(w1.log, "resume") = (IF resume_command # NoCmd THEN 1 ELSE 0)
           /\ w2.log = <<>>

\* Manually paused after an episode that dimmed the backlight and
\* suspended, with a resume_command configured.
C19_Witness ==
    /\ Running
    /\ manually_paused
    /\ was_idle(Self)
    /\ previous_brightness # None
    /\ suspend_occurred
    /\ resume_command # NoCmd

\* ---- C20
\* C20: an automatic pause(false) followed by resume(false), with no timed
\* action fired since the last activity, restores no brightness and runs
\* no resume_command, also when instant actions fired at installation.
C20_AutoPauseSilent ==
    (/\ Running
     /\ ~manually_paused
     /\ \A i \in 1..Len(actions) :
           is_idle_flags[i] => actions[i].timeout_seconds = 0)
    => LET w == resume(pause(Self, FALSE), FALSE, now)
       IN ~Has(w.log, "restore") /\ ~Has(w.log, "resume")

\* ---- C17
\* The commands an operation dispatched may have run before the next
\* call: a dispatched Brightness command dims the backlight.
AfterCommands(w) ==
    {w} \cup (IF \E i \in Dispatched(w.log) : w.actions[i].kind = "brightness"
              THEN {[w EXCEPT !.backlight = 1]} ELSE {})

\* The part of the timer state that C17 compares.
LadderState(w) ==
    <<w.actions, w.is_idle_flags, w.active_kinds, w.previous_brightness,
      w.suspend_occurred, w.paused, w.manually_paused>>

\* C17: update_from_config(c) applied twice in a row leaves the same
\* timer state (active ladder, fired flags, active_kinds, brightness backup
\* with its captured value, suspend_occurred, pause flags) as one call.
C17_ReloadIdempotent ==
    Running =>
        \A c \in Configs(is_laptop) :
            \A lockRunning \in LockChoices(Values(c.actions)),
               capOk \in CapChoices(Values(c.actions)) :
                LET w1 == update_from_config(Self, c, now, lockRunning, capOk)
                IN \A m \in AfterCommands(w1) :
                      LadderState(update_from_config(Settled(m), c, now,
                                                     lockRunning, capOk))
                          = LadderState(w1)

\* ---- C13
\* C13: whenever a media player was last observed Playing or the set of
\* matching inhibiting apps was last observed non-empty, and the timer is
\* not manually paused, the automatic paused flag is true.
C13_InhibitedWhileCauseActive ==
    ((media_playing \/ active_apps # {}) /\ ~manually_paused) => paused

\* ---- C14
\* C14: every step on which the set of matching inhibiting apps goes from
\* empty to non-empty applies pause(false) to the timer, and every step on
\* which it goes from non-empty to empty applies resume(false), also when
\* the scan is made by the `info` control command.
C14_AppEdges ==
    [][/\ (active_apps = {} /\ active_apps' # {})
            => Self' = Settled(pause(Self, FALSE))
       /\ (active_apps # {} /\ active_apps' = {})
            => Self' = Settled(resume(Self, FALSE, now))]_vars

\* ---- C21
\* C21: an Idled event that arrives while idle inhibitors are respected and
\* at least one is active changes no timer field (no fired flag is set) and
\* dispatches nothing.
C21_InhibitedIdledIgnored ==
    Running =>
        \A lockRunning \in LockChoices(actions) :
            idle_event(Self, "Idled", 1, now, lockRunning) = Self

\* The notification is registered, inhibitors are respected and an action
\* of the ladder has not fired yet.
C21_Witness ==
    /\ Running
    /\ compositor_managed
    /\ cfg.respect_idle_inhibitors
    /\ \E i \in 1..Len(actions) :
          ~is_idle_flags[i] /\ ~IsBlank(actions[i].command)

\* ---- C22
\* C22: an Idled event that arrives on the registered notification while
\* not inhibited sets every fired flag and dispatches the command of every
\* action of the active ladder that had not fired.
C22_IdledFires ==
    (Running /\ compositor_managed) =>
        \A lockRunning \in LockChoices(actions) :
            LET w == idle_event(Self, "Idled", 0, now, lockRunning)
            IN /\ \A i \in 1..Len(actions) : w.is_idle_flags[i]
               /\ \A i \in 1..Len(actions) :
                     (/\ ~is_idle_flags[i]
                      /\ ~IsBlank(actions[i].command)
                      /\ actions[i].kind # "lock_screen")
                     => i \in Dispatched(w.log)

\* ---- C23
\* C23: every Resumed event received on the registered notification applies
\* reset(): fired flags cleared, last_activity advanced, debounce armed.
C23_ResumedResets ==
    (Running /\ compositor_managed) =>
        \A inhibitors \in 0..1 :
            idle_event(Self, "Resumed", inhibitors, now, FALSE) = reset(Self, now)

\* ---- C24
\* Number of times the command of action i was dispatched.
Runs(log, i) ==
    Cardinality({k \in 1..Len(log) : log[k].e = "run" /\ log[k].i = i})

\* C24: update_power_source(v) with v different from the current on_ac
\* restores the pending brightness backup (if any) to the device first,
\* installs the ac.* or battery.* partition of the configuration as the
\* active ladder, dispatches each instant action of the new ladder exactly
\* once and no other action, and leaves fired[i] true exactly for the
\* instant actions, with active_kinds holding exactly their kinds.
C24_PowerSwitch ==
    (Running /\ is_laptop) =>
        \A lockRunning \in LockChoices(ac_actions \o battery_actions),
           capOk \in CapChoices(ac_actions \o battery_actions) :
            LET v == ~on_ac
                w == update_power_source(Self, v, lockRunning, capOk)
                ladder == IF v THEN AcPartition(cfg) ELSE BatteryPartition(cfg)
            IN /\ w.on_ac = v
               /\ w.actions = ladder
               /\ Len(w.is_idle_flags) = Len(ladder)
               /\ IF previous_brightness # None
                  THEN /\ Count(w.log, "restore") = 1
                       /\ w.log[1] = Ev("restore", 0, "", previous_brightness)
                       /\ w.backlight = previous_brightness
                  ELSE /\ ~Has(w.log, "restore")
                       /\ w.backlight = backlight
               /\ \A i \in 1..Len(ladder) :
                     /\ w.is_idle_flags[i] <=> (ladder[i].timeout_seconds = 0)
                     /\ Runs(w.log, i) =
                           (IF /\ ladder[i].timeout_seconds = 0
                               /\ ~IsBlank(ladder[i].command)
                               /\ ladder[i].kind # "lock_screen"
                            THEN 1 ELSE 0)
               /\ w.active_kinds =
                     {ladder[i].kind : i \in {j \in 1..Len(ladder) :
                                                ladder[j].timeout_seconds = 0}}

\* On AC with a pending brightness backup and fired actions, while the
\* battery ladder has an instant action with a command.
C24_Witness ==
    /\ Running
    /\ is_laptop
    /\ pm_started
    /\ on_ac
    /\ last_on_ac
    /\ previous_brightness # None
    /\ backlight # previous_brightness
    /\ \E i \in 1..Len(actions) : is_idle_flags[i]
    /\ \E i \in 1..Len(battery_actions) :
          /\ battery_actions[i].timeout_seconds = 0
          /\ ~IsBlank(battery_actions[i].command)

\* ---- C25
\* The pre-suspend command has completed before the command of action i is
\* spawned.
PreBeforeRun(log, i) ==
    \A k \in 1..Len(log) :
        (log[k].e = "run" /\ log[k].i = i)
        => \E j \in 1..(k - 1) : log[j].e = "pre"

\* The operation that yields w dispatched a Suspend action while a
\* pre_suspend_command and a resume_command were configured.
SuspendDispatched(w) ==
    /\ w.pre_suspend_command # NoCmd
    /\ w.resume_command # NoCmd
    /\ \E i \in Dispatched(w.log) : w.actions[i].kind = "suspend"

\* C25 at the dispatch: the pre-suspend command runs before the suspend
\* command is spawned, suspend_occurred is set, and a reset() that follows
\* at once schedules the resume_command.
C25_AtDispatch ==
    Running =>
        \A w \in LadderKeepingOutcomes \cup InstallOutcomes :
            SuspendDispatched(w) =>
                /\ \A i \in Dispatched(w.log) :
                      w.actions[i].kind = "suspend" => PreBeforeRun(w.log, i)
                /\ w.suspend_occurred
                /\ Has(reset(Settled(w), now).log, "resume")

\* C25 up to the next reset(): while a Suspend action has been dispatched
\* and no reset() has run since, suspend_occurred is true and reset()
\* schedules the resume_command.
C25_NextReset ==
    (/\ Running
     /\ pre_suspend_command # NoCmd
     /\ resume_command # NoCmd
     /\ \E i \in 1..Len(actions) : actions[i].kind = "suspend" /\ dispReset[i])
    => (suspend_occurred /\ Has(reset(Self, now).log, "resume"))

\* C25: when a Suspend action is dispatched with pre_suspend_command and
\* resume_command configured, the pre-suspend command runs before the
\* suspend command is spawned, suspend_occurred becomes true, and the next
\* reset() schedules the resume_command.
C25_SuspendDispatch == C25_AtDispatch /\ C25_NextReset

\* ---- C26
\* C26: on PrepareForSleep(true) the suspend listener runs the pre-suspend
\* command (if configured) and changes no timer field: suspend_occurred,
\* fired flags, active_kinds and last_activity stay as they were; on
\* PrepareForSleep(false) it spawns the resume_command (if configured)
\* without a reset() and without changing any timer field.
C26_SuspendListenerFrame ==
    Running =>
        LET s == prepare_for_sleep(Self, TRUE, now)
            r == prepare_for_sleep(Self, FALSE, now)
        IN /\ Settled(s) = Self
           /\ s.log = IF pre_suspend_command # NoCmd
                      THEN <<Ev("pre", 0, pre_suspend_command, None)>>
                      ELSE <<>>
           /\ Settled(r) = Self
           /\ r.log = IF resume_command # NoCmd
                      THEN <<Ev("resume", 0, resume_command, None)>>
                      ELSE <<>>

\* Both commands configured, actions fired, no suspend recorded: a reset()
\* or a recorded suspend would be visible.
C26_Witness ==
    /\ Running
    /\ pre_suspend_command # NoCmd
    /\ resume_command # NoCmd
    /\ ~suspend_occurred
    /\ was_idle(Self)
    /\ active_kinds # {}
    /\ last_activity # now

\* ---- C27
\* C27: a `reload` control command whose configuration file fails to load
\* leaves every timer field (cfg, ladders, fired flags, pause flags and the
\* rest) unchanged and dispatches nothing.
C27_FailedReloadRetains ==
    Running =>
        \A c \in Configs(is_laptop) :
            \A lockRunning \in LockChoices(Values(c.actions)),
               capOk \in CapChoices(Values(c.actions)) :
                ctl_reload(Self, FALSE, c, now, lockRunning, capOk) = Self

\* Actions have fired and a brightness backup is held while the timer is
\* paused: a reload that succeeded would clear the flags and the backup.
C27_Witness ==
    /\ Running
    /\ was_idle(Self)
    /\ previous_brightness # None
    /\ paused
    /\ debounce_until # None

\* ---- C30
\* C30: after every reset(), whatever the prior state, all fired flags are
\* false, active_kinds is empty, the brightness backup is None,
\* suspend_occurred is false, the idle debounce is disarmed, last_activity
\* is now and the activity debounce ends at now + debounce_seconds.
C30_ResetPostcondition ==
    Running =>
        LET w == reset(Self, now)
        IN /\ \A i \in 1..Len(w.is_idle_flags) : ~w.is_idle_flags[i]
           /\ w.active_kinds = {}
           /\ w.previous_brightness = None
           /\ ~w.suspend_occurred
           /\ w.idle_debounce_until = None
           /\ w.last_activity = now
           /\ w.debounce_until = now + cfg.debounce_seconds

\* ---- C28
\* C28: the timer mutex is never held while an external command is waited
\* for (the pre-suspend command, or pgrep in prepare_action), so no task
\* is suspended on the mutex for the duration of an external command.
C28_MutexNotHeldAcrossExternal ==
    child # "none" => (mutex = "free" /\ waiting = {})

\* ---- C29
\* C29: under every interleaving of the connect, unlink and bind steps of
\* instances that start concurrently, at most one daemon instance holds a
\* listener on the control socket.
C29_SingleInstance ==
    Cardinality({i \in Instances : inst[i] = "serving"}) <= 1

\* ---- C31
\* C31: check_idle dispatches an action with timeout T no earlier than
\* T + debounce_seconds after last_activity (the one-shot idle debounce is
\* armed at the threshold and must expire first), under every interleaving
\* with pause/resume, update_power_source and update_from_config.
C31_IdleDebounce ==
    Running =>
        \A w \in TickOutcomes :
            \A i \in Dispatched(w.log) :
                now >= last_activity + actions[i].timeout_seconds
                           + cfg.debounce_seconds

\* ---- C32
\* Action j is eligible at this tick: timed, not fired, its timeout elapsed,
\* its kind not active and not the kind of an eligible action before it.
Eligible(j) ==
    /\ Due(j)
    /\ actions[j].kind \notin active_kinds
    /\ \A k \in 1..(j - 1) : Due(k) => actions[k].kind # actions[j].kind

\* C32: a check_idle call that dispatches an action goes on through the
\* ladder and fires every other action eligible at that tick.
C32_NoOnePerTickRule ==
    Running =>
        \A w \in TickOutcomes :
            Dispatched(w.log) # {} =>
                \A j \in 1..Len(actions) : Eligible(j) => w.is_idle_flags[j]

\* ---- C33
\* C33: with debounce_seconds = 0 a timed action is dispatched by the
\* first check_idle tick at which elapsed >= its timeout, on the very tick
\* of the threshold.
C33_ZeroDebounceFiresAtThreshold ==
    (/\ Running
     /\ cfg.debounce_seconds = 0
     /\ ~paused /\ ~manually_paused
     /\ idle_debounce_until = None)
    => \A i \in 1..Len(actions) :
          (Eligible(i) /\ now - last_activity = actions[i].timeout_seconds)
          => \A w \in TickOutcomes : i \in Dispatched(w.log)

\* ---- C34
\* C34: trigger_pre_suspend(rewind = true, manual) sets last_activity to
\* now, clears the fired flags and active_kinds and re-fires the instant
\* actions without arming the activity debounce, whether or not a
\* pre_suspend_command is configured; and suspend_occurred becomes true
\* exactly when manual is false.
C34_PreSuspendRewind ==
    Running =>
        \A manual \in BOOLEAN :
            \A lockRunning \in LockChoices(actions),
               capOk \in CapChoices(actions) :
                LET w == trigger_pre_suspend(Self, TRUE, manual, now,
                                             lockRunning, capOk)
                IN /\ w.last_activity = now
                   /\ w.debounce_until = debounce_until
                   /\ \A i \in 1..Len(actions) :
                         w.is_idle_flags[i] <=> (actions[i].timeout_seconds = 0)
                   /\ w.active_kinds =
                         {actions[i].kind : i \in {j \in 1..Len(actions) :
                                                    actions[j].timeout_seconds = 0}}
                   /\ w.suspend_occurred <=> (suspend_occurred \/ ~manual)

\* ---- C35
\* The log without the record of a failed pre-suspend command.
WithoutFailure(log) == SelectSeq(log, LAMBDA ev : ev.e # "pre_failed")

\* The outcome of a handler but for the exit status it observed.
SameButExit(bad, good) ==
    /\ [bad EXCEPT !.pre_ok = TRUE, !.log = <<>>] = Settled(good)
    /\ WithoutFailure(bad.log) = good.log

\* C35: a failing pre-suspend command (spawn error, non-zero exit, kill at
\* the timeout) changes nothing else: check_idle, trigger_idle and the
\* suspend listener leave the same timer state and dispatch the same
\* commands, the Suspend command included, as when the command succeeds;
\* fired flags, active_kinds and suspend_occurred stay recorded.
C35_PreSuspendFailureSwallowed ==
    (Running /\ pre_suspend_command # NoCmd) =>
        LET bad == [Self EXCEPT !.pre_ok = FALSE]
        IN /\ \A lockRunning \in LockChoices(actions),
                 capOk \in CapChoices(actions) :
                  SameButExit(check_idle(bad, now, lockRunning, capOk),
                              check_idle(Self, now, lockRunning, capOk))
           /\ \A lockRunning \in LockChoices(actions) :
                  SameButExit(trigger_idle(bad, lockRunning),
                              trigger_idle(Self, lockRunning))
           /\ SameButExit(prepare_for_sleep(bad, TRUE, now),
                          prepare_for_sleep(Self, TRUE, now))

\* A tick dispatches a Suspend action whose pre-suspend command fails.
C35_Witness ==
    /\ Running
    /\ \E w \in TickOutcomes :
          /\ Has(w.log, "pre_failed")
          /\ \E i \in Dispatched(w.log) : actions[i].kind = "suspend"
          /\ w.suspend_occurred

\* ---- C36
\* prepare_action ran for action i: its command was spawned or skipped.
Attempted(log, i) ==
    \E k \in 1..Len(log) : log[k].e \in {"run", "skip"} /\ log[k].i = i

Skipped(log, i) ==
    \E k \in 1..Len(log) : log[k].e = "skip" /\ log[k].i = i

LockActions ==
    {i \in 1..Len(actions) :
        actions[i].kind = "lock_screen" /\ ~IsBlank(actions[i].command)}

C37_ResetKeepsPauseFlags ==
    Running =>
        /\ LET w == reset(Self, now)
           IN /\ w.manually_paused = manually_paused
              /\ w.paused = paused
        /\ \A inhibitors \in 0..1 :
              LET w == idle_event(Self, "Resumed", inhibitors, now, FALSE)
              IN /\ w.manually_paused = manually_paused
                 /\ w.paused = paused

\* reset() has fired flags to clear while the timer is manually paused.
C37_Witness ==
    /\ Running
    /\ manually_paused
    /\ was_idle(Self)
    /\ reset(Self, now).is_idle_flags # is_idle_flags

\* ---- C38
\* C38: manually_paused and the automatic paused flag are never both true,
\* in any reachable state and after any further pause or resume call.
C38_PauseFlagsExclusive ==
    /\ ~(manually_paused /\ paused)
    /\ Running =>
          \A manually \in BOOLEAN :
              /\ LET w == pause(Self, manually)
                 IN ~(w.manually_paused /\ w.paused)
              /\ LET w == resume(Self, manually, now)
                 IN ~(w.manually_paused /\ w.paused)

\* A manual pause arrives while the timer is automatically paused.
C38_Witness ==
    /\ Running
    /\ paused
    /\ pause(Self, TRUE).manually_paused
    /\ ~pause(Self, TRUE).paused

\* ---- C40
\* C40: in one suspend cycle, the dispatch of a Suspend action followed by
\* PrepareForSleep(true), PrepareForSleep(false) and the first reset(), the
\* pre_suspend_command is run exactly once and the resume_command is run
\* exactly once.
C40_SuspendCycleOnce ==
    Running =>
        \A w1 \in TickOutcomes \cup TriggerIdleOutcomes :
            SuspendDispatched(w1) =>
                LET w2 == prepare_for_sleep(Settled(w1), TRUE, now)
                    w3 == prepare_for_sleep(Settled(w2), FALSE, now)
                    w4 == reset(Settled(w3), now)
                IN /\ Count(w1.log, "pre") + Count(w2.log, "pre")
                        + Count(w3.log, "pre") + Count(w4.log, "pre") = 1
                   /\ Count(w1.log, "resume") + Count(w2.log, "resume")
                        + Count(w3.log, "resume") + Count(w4.log, "resume") = 1

\* ---- C39
\* spawn_idle_task: the ticker fires after one more second and check_idle
\* runs under the lock.  The clock stops advancing at Horizon; the ticker
\* goes on.
LiveTick ==
    /\ pc = "running"
    /\ now' = IF now < Horizon THEN now + 1 ELSE now
    /\ \E s \in Selves, lockRunning \in LockChoices(actions),
          capOk \in CapChoices(actions) :
          Commit("normal",
                 IF ~manually_paused
                 THEN check_idle(s, now', lockRunning, capOk)
                 ELSE s)
    /\ UNCHANGED <<pc, envVars, lockVars, startVars>>

\* The system left to its ticker: no input, no pause, no reload, no power
\* change.  The wayland setup, the login manager's sleep signals and the
\* dim command touch no field that check_idle reads.
NextLive ==
    \/ InitTimer
    \/ LiveTick
    \/ WaylandSetup
    \/ PrepareForSleep
    \/ DimCommandRuns

\* main runs init, and the interval of spawn_idle_task fires every second.
SpecLive ==
    /\ Init
    /\ [][NextLive]_vars
    /\ WF_vars(InitTimer)
    /\ WF_vars(LiveTick)

TimedActions == {i \in 1..Len(actions) : actions[i].timeout_seconds > 0}

\* C39: with no activity reset, no pause, no reload and no power change,
\* under fair ticking of check_idle every timed action of the active ladder
\* is eventually fired, also when several actions share a kind.
C39_LadderLiveness ==
    <>(Running /\ \A i \in TimedActions : is_idle_flags[i])

====
